---- MODULE Spec2Model ----
(***************************************************************************)
(* Model of handler.py: the RunPod serverless worker that stages an audio  *)
(* payload in a temporary file, lazily loads one faster-whisper model per  *)
(* process and transcribes the file.                                       *)
(*                                                                         *)
(* Python values are tagged records: None, strings (sequences of           *)
(* characters), integers and dicts (functions from present keys).          *)
(***************************************************************************)
EXTENDS Integers, Sequences, FiniteSets, TLC

VARIABLES
    cfg,         \* process configuration read from os.environ at import and in load_model
    _model,      \* the module-level cache: 0 is None, n > 0 the instance built by the n-th constructor call
    ctor,        \* number of WhisperModel(...) constructor invocations so far, and how many built a model
    tempFiles,   \* paths made by tempfile.mkstemp that still exist
    created,     \* number of mkstemp calls so far (paths are 1..created)
    served,      \* number of requests the runtime has dispatched to run
    pc,          \* position of the request being handled by run
    event,       \* run's argument
    audio_path,  \* run's local audio_path (0 before it is bound)
    model,       \* run's local model (0 before it is bound)
    language,    \* run's local language
    beam_size,   \* run's local beam_size
    last,        \* outcome of the request's _extract_audio_to_file call
    lm,          \* summary of the request's load_model call
    transcribed, \* the arguments of the request's model.transcribe call
    result,      \* how run ended: what it returned or raised, and at which step
    th           \* cold-start race: per-invocation position and locals in load_model

vars == <<cfg, _model, ctor, tempFiles, created, served, pc, event, audio_path, model, language, beam_size, last, lm, transcribed, result, th>>

\* ---------------------------------------------------------------- bounds

\* requests dispatched to run in one process
MaxRequests == 2
\* words in an exception message raised by the model constructor
MaxMsgLen == 2
\* invocations of load_model racing during cold start
NThreads == 2

\* ---------------------------------------------------------------- Python values

Absent == [t |-> "absent"]
None == [t |-> "none"]
Str(s) == [t |-> "str", s |-> s]
Num(n) == [t |-> "int", n |-> n]
\* a dict literal: the keys given as Absent are not in the dict
Dict(f) == [t |-> "dict", d |-> [k \in {j \in DOMAIN f : f[j].t # "absent"} |-> f[k]]]
EmptyDict == [t |-> "dict", d |-> <<>>]

\* bool(v)
Truthy(v) ==
    CASE v.t = "none" -> FALSE
      [] v.t = "str" -> Len(v.s) > 0
      [] v.t = "int" -> v.n # 0
      [] v.t = "dict" -> DOMAIN v.d # {}
      [] OTHER -> FALSE

\* a or b
Or(a, b) == IF Truthy(a) THEN a ELSE b

\* isinstance(v, dict)
IsDict(v) == v.t = "dict"

\* d.get(k, default) on a dict d
GetOr(d, k, default) == IF k \in DOMAIN d.d THEN d.d[k] ELSE default

\* d.get(k)
Get(d, k) == GetOr(d, k, None)

\* k in d
Has(d, k) == k \in DOMAIN d.d

\* ---------------------------------------------------------------- exceptions

NoExc == [type |-> "", msg |-> <<>>, cause |-> <<>>, precision |-> FALSE]
Exc(type, msg) == [type |-> type, msg |-> msg, cause |-> <<>>, precision |-> FALSE]
\* raise Exc(type, msg) from cause
ExcFrom(type, msg, cause) == [type |-> type, msg |-> msg, cause |-> <<cause>>, precision |-> FALSE]

NoAudioProvided == Exc("ValueError", <<"No audio provided. Send 'file' (base64) or 'file_url'.">>)
MustBeCached == <<"Model must be cached; set WHISPER_REQUIRE_CACHED=0 to allow downloading.">>

\* ---------------------------------------------------------------- base64

B64Alphabet == {"A", "B", "Q", "U", "J", "D", "+", "/"}

RECURSIVE CountIn(_, _)
CountIn(s, set) ==
    IF s = <<>> THEN 0
    ELSE (IF Head(s) \in set THEN 1 ELSE 0) + CountIn(Tail(s), set)

\* base64.b64decode(v) with validate=False: characters outside the alphabet are
\* discarded, then the data characters must be padded to a multiple of four.
\* Returns the number of bytes decoded, or the exception raised.
B64Decode(v) ==
    IF v.t # "str" THEN [ok |-> FALSE, n |-> 0, exc |-> Exc("TypeError", <<"argument should be a bytes-like object or ASCII string">>)]
    ELSE LET data == CountIn(v.s, B64Alphabet)
             pad == CountIn(v.s, {"="})
             rem == data % 4
         IN  IF rem = 1 THEN [ok |-> FALSE, n |-> 0, exc |-> Exc("binascii.Error", <<"Invalid base64-encoded string">>)]
             ELSE IF rem # 0 /\ pad < 4 - rem THEN [ok |-> FALSE, n |-> 0, exc |-> Exc("binascii.Error", <<"Incorrect padding">>)]
             ELSE [ok |-> TRUE, n |-> (data * 3) \div 4, exc |-> NoExc]

\* ---------------------------------------------------------------- temp files

\* The outcome of a call: it returns `val` or raises `exc`; `made` is the set of
\* temporary files it created and `source` the payload field it read.
Returned(val, made, source) == [kind |-> "return", val |-> val, exc |-> NoExc, made |-> made, source |-> source]
Raised(exc, made, source) == [kind |-> "raise", val |-> 0, exc |-> exc, made |-> made, source |-> source]

\* tempfile.mkstemp, then writing `data`; io.write says whether the write succeeds
WriteNewTemp(io, fresh, source) ==
    IF io.write = "ok" THEN Returned(fresh, {fresh}, source)
    ELSE Raised(Exc("OSError", <<"No space left on device">>), {fresh}, source)

\* mutation: the temporary file is made before the payload is decoded
WriteTempAudioFromBase64_mkstempFirst(content_b64, io, fresh, source) ==
    LET dec == B64Decode(content_b64)
    IN  IF ~dec.ok THEN Raised(dec.exc, {fresh}, source)
        ELSE WriteNewTemp(io, fresh, source)

WriteTempAudioFromBase64(content_b64, io, fresh, source) ==
    LET dec == B64Decode(content_b64)
    IN  IF ~dec.ok THEN Raised(dec.exc, {}, source)
        ELSE WriteNewTemp(io, fresh, source)

\* requests.get(url, timeout=30); resp.raise_for_status(); io.fetch is what the network does
WriteTempAudioFromUrl(url, io, fresh, source) ==
    CASE io.fetch = "timeout" -> Raised(Exc("requests.Timeout", <<"Read timed out">>), {}, source)
      [] io.fetch = "http_error" -> Raised(Exc("requests.HTTPError", <<"404 Client Error">>), {}, source)
      [] OTHER -> WriteNewTemp(io, fresh, source)

\* ---------------------------------------------------------------- _extract_audio_to_file

\* the direct event fields and the final error (lines 101-118)
ExtractDirect(ev, io, fresh) ==
    LET file_b64 == Get(ev, "file")
        file_url == Or(Get(ev, "file_url"), Get(ev, "audio_url"))
    IN  IF Has(ev, "file") /\ Truthy(file_b64)
            THEN WriteTempAudioFromBase64(file_b64, io, fresh, "file")
        ELSE IF Truthy(file_url)
            THEN WriteTempAudioFromUrl(file_url, io, fresh, IF Truthy(Get(ev, "file_url")) THEN "file_url" ELSE "audio_url")
        ELSE Raised(NoAudioProvided, {}, "")

\* mutation: the input payload prefers the URL over the inlined base64
ExtractInput_urlFirst(ev, io, fresh) ==
    LET input_payload == Or(Get(ev, "input"), EmptyDict)
    IN  IF ~IsDict(input_payload) THEN ExtractDirect(ev, io, fresh)
        ELSE LET file_b64 == Get(input_payload, "file")
                 file_url == Or(Get(input_payload, "file_url"), Get(input_payload, "audio_url"))
             IN  IF Truthy(file_url)
                     THEN WriteTempAudioFromUrl(file_url, io, fresh, IF Truthy(Get(input_payload, "file_url")) THEN "input.file_url" ELSE "input.audio_url")
                 ELSE IF Truthy(file_b64)
                     THEN WriteTempAudioFromBase64(file_b64, io, fresh, "input.file")
                 ELSE ExtractDirect(ev, io, fresh)

\* the input payload (lines 89-99)
ExtractInput(ev, io, fresh) ==
    LET input_payload == Or(Get(ev, "input"), EmptyDict)
    IN  IF ~IsDict(input_payload) THEN ExtractDirect(ev, io, fresh)
        ELSE LET file_b64 == Get(input_payload, "file")
                 file_url == Or(Get(input_payload, "file_url"), Get(input_payload, "audio_url"))
             IN  IF Truthy(file_b64)
                     THEN WriteTempAudioFromBase64(file_b64, io, fresh, "input.file")
                 ELSE IF Truthy(file_url)
                     THEN WriteTempAudioFromUrl(file_url, io, fresh, IF Truthy(Get(input_payload, "file_url")) THEN "input.file_url" ELSE "input.audio_url")
                 ELSE ExtractDirect(ev, io, fresh)

\* mutation: files is used as a mapping without the isinstance checks
ExtractAudioToFile_unchecked(ev, io, fresh) ==
    LET files == Or(Get(ev, "files"), EmptyDict)
    IN  IF ~IsDict(files) THEN Raised(Exc("AttributeError", <<"object has no attribute 'get'">>), {}, "")
        ELSE LET file_entry == Get(files, "file")
             IN  IF file_entry.t = "none" THEN ExtractInput(ev, io, fresh)
                 ELSE IF ~IsDict(file_entry) THEN Raised(Exc("AttributeError", <<"object has no attribute 'get'">>), {}, "")
                 ELSE IF Truthy(Get(file_entry, "content"))
                     THEN WriteTempAudioFromBase64(Get(file_entry, "content"), io, fresh, "files.file.content")
                 ELSE ExtractInput(ev, io, fresh)

\* _extract_audio_to_file(event): the RunPod UI multipart format first (lines 80-87)
ExtractAudioToFile(ev, io, fresh) ==
    LET files == Or(Get(ev, "files"), EmptyDict)
    IN  IF IsDict(files) /\ IsDict(Get(files, "file")) /\ Truthy(Get(Get(files, "file"), "content"))
            THEN WriteTempAudioFromBase64(Get(Get(files, "file"), "content"), io, fresh, "files.file.content")
        ELSE ExtractInput(ev, io, fresh)

\* ---------------------------------------------------------------- load_model

\* words an exception message of the constructor is made of
Words == {"CUDA", "GPU", "device", "local", "failed"}

Messages == UNION {[1..n -> Words] : n \in 1..MaxMsgLen}

\* str.lower(), word by word
LowerWord(w) ==
    CASE w = "CUDA" -> "cuda"
      [] w = "GPU" -> "gpu"
      [] OTHER -> w

Lower(msg) == [i \in DOMAIN msg |-> LowerWord(msg[i])]

\* w in msg
Contains(msg, w) == \E i \in DOMAIN msg : msg[i] = w

\* what WhisperModel(...) can do: build an instance, or raise; `precision` marks
\* the backend rejecting the requested compute type
CtorOk == [ok |-> TRUE, exc |-> NoExc]
CtorFailures == {[ok |-> FALSE, exc |-> [Exc("RuntimeError", m) EXCEPT !.precision = p]] : m \in Messages, p \in BOOLEAN}
CtorOutcomes == {CtorOk} \cup CtorFailures

\* mutation: every failure that mentions "local" is reported as a cache problem
HandleCtorFailure_maskDevice(c, exc) ==
    LET exc_str == Lower(exc.msg)
    IN  IF c.require_cached /\ Contains(exc_str, "local")
            THEN ExcFrom("RuntimeError", MustBeCached, exc)
        ELSE exc

\* the except block of load_model (lines 40-50): the exception that leaves it
HandleCtorFailure(c, exc) ==
    LET exc_str == Lower(exc.msg)
    IN  IF Contains(exc_str, "cuda") \/ Contains(exc_str, "gpu") \/ Contains(exc_str, "device")
            THEN exc
        ELSE IF c.require_cached /\ Contains(exc_str, "local")
            THEN ExcFrom("RuntimeError", MustBeCached, exc)
        ELSE exc

\* The summary of one load_model call: the cache before and after it, the number
\* of constructor invocations it made, what the constructor raised, its outcome.
LoadResult(before, after, n, ctorExc, res) == [before |-> before, cache |-> after, calls |-> n, ctorExc |-> ctorExc, res |-> res]
NoLoad == LoadResult(0, 0, 0, NoExc, [kind |-> "none", val |-> 0, exc |-> NoExc, made |-> {}, source |-> ""])

\* mutation: the cache is not consulted, every call builds a model
LoadModel_noCache(m, c, out, id) ==
    IF out.ok THEN LoadResult(m, id, 1, NoExc, Returned(id, {}, ""))
    ELSE LoadResult(m, m, 1, out.exc, Raised(HandleCtorFailure(c, out.exc), {}, ""))

\* load_model() with the cache holding m; `out` is what the constructor does if
\* it is invoked and `id` the instance it would build
LoadModel(m, c, out, id) ==
    IF m # 0 THEN LoadResult(m, m, 0, NoExc, Returned(m, {}, ""))
    ELSE IF out.ok THEN LoadResult(m, id, 1, NoExc, Returned(id, {}, ""))
    ELSE LoadResult(m, m, 1, out.exc, Raised(HandleCtorFailure(c, out.exc), {}, ""))

\* ---------------------------------------------------------------- run: per-request options

DEFAULT_BEAM_SIZE == 5

\* mutation: the process-wide default language is ignored
ParseLanguage_noDefault(input_payload, default_language) ==
    Or(Get(input_payload, "language"), None)

\* language = input_payload.get("language", DEFAULT_LANGUAGE) or None (line 127)
ParseLanguage(input_payload, default_language) ==
    Or(GetOr(input_payload, "language", Str(default_language)), None)

\* int(v) (line 128)
ParseInt(v) ==
    CASE v.t = "int" -> [ok |-> TRUE, n |-> v.n, exc |-> NoExc]
      [] v.t = "str" /\ v.s = <<"1">> -> [ok |-> TRUE, n |-> 1, exc |-> NoExc]
      [] v.t = "str" -> [ok |-> FALSE, n |-> 0, exc |-> Exc("ValueError", <<"invalid literal for int() with base 10">>)]
      [] OTHER -> [ok |-> FALSE, n |-> 0, exc |-> Exc("TypeError", <<"int() argument must be a string, a bytes-like object or a real number">>)]

\* lines 126-128: the options of the request, or the exception raised reading them
ParseOptions(ev, c) ==
    LET input_payload == Or(Get(ev, "input"), EmptyDict)
    IN  IF ~IsDict(input_payload)
            THEN [ok |-> FALSE, language |-> None, beam_size |-> 0, exc |-> Exc("AttributeError", <<"object has no attribute 'get'">>)]
        ELSE LET b == ParseInt(GetOr(input_payload, "beam_size", Num(DEFAULT_BEAM_SIZE)))
             IN  [ok |-> b.ok, language |-> ParseLanguage(input_payload, c.default_language), beam_size |-> b.n, exc |-> b.exc]

\* ---------------------------------------------------------------- request payloads

B64Good == Str(<<"Q", "U", "J", "D">>)
B64BadPadding == Str(<<"Q", "Q">>)
B64NoData == Str(<<"%", "%", "%">>)
Url == Str(<<"https://x/a.mp3">>)
NonMapping == Str(<<"x">>)

\* what a base64 field and a URL field of a payload can hold
B64Slot == {Absent, Str(<<>>), B64Good, B64BadPadding, B64NoData}
UrlSlot == {Absent, Str(<<>>), Url}

FileEntryValues == {Absent, NonMapping} \cup {Dict([content |-> c]) : c \in B64Slot}
FilesValues == {Absent, None, NonMapping} \cup {Dict([file |-> f]) : f \in FileEntryValues}

InputDicts(B, U, A, L, S) == {Dict([file |-> b, file_url |-> u, audio_url |-> a, language |-> l, beam_size |-> s]) : b \in B, u \in U, a \in A, l \in L, s \in S}

Events(F, I, B, U, A) == {Dict([files |-> f, input |-> i, file |-> b, file_url |-> u, audio_url |-> a]) : f \in F, i \in I, b \in B, u \in U, a \in A}

\* every shape of the audio sources, without per-request options
ExtractEvents == Events(FilesValues, {Absent, None, NonMapping} \cup InputDicts(B64Slot, UrlSlot, UrlSlot, {Absent}, {Absent}), B64Slot, UrlSlot, UrlSlot)

LanguageSlot == {Absent, None, Str(<<>>), Str(<<"en">>)}
BeamSlot == {Absent, Num(1), Str(<<"1">>), Str(<<"x">>)}

\* requests with per-request options, over fewer shapes of the audio sources
RunEvents == Events({Absent}, {Absent, NonMapping} \cup InputDicts({Absent, B64Good, B64BadPadding}, {Absent, Url}, {Absent}, LanguageSlot, BeamSlot), {Absent, B64Good}, {Absent}, {Absent})

\* what the network and the disk do during one request
IoOutcomes == [fetch : {"ok", "http_error", "timeout"}, write : {"ok", "fail"}]

\* os.environ: WHISPER_REQUIRE_CACHED == "1" and WHISPER_LANGUAGE
Configs == [require_cached : BOOLEAN, default_language : {<<>>, <<"it">>}]

\* ---------------------------------------------------------------- initial states

NoOutcome == [kind |-> "none", val |-> 0, exc |-> NoExc, made |-> {}, source |-> ""]
NoCall == [called |-> FALSE, audio_path |-> 0, beam_size |-> 0, language |-> None]
NoResult == [kind |-> "none", exc |-> NoExc, step |-> "", response |-> <<>>]
NoEvent == EmptyDict
Threads == 1..NThreads
ThreadStart == [pc |-> "start", tmp |-> 0, ret |-> 0, exc |-> NoExc]

\* the state after the module is imported (lines 12-24)
Imported ==
    /\ cfg \in Configs
    /\ _model = 0
    /\ ctor = [calls |-> 0, built |-> 0]
    /\ tempFiles = {}
    /\ created = 0
    /\ served = 0
    /\ audio_path = 0
    /\ model = 0
    /\ language = None
    /\ beam_size = 0
    /\ last = NoOutcome
    /\ lm = NoLoad
    /\ transcribed = NoCall
    /\ result = NoResult
    /\ th = [i \in Threads |-> ThreadStart]

Init ==
    /\ Imported
    /\ pc = "idle"
    /\ event = NoEvent

\* ---------------------------------------------------------------- run, step by step

\* how run ends
RunRaises(exc, step) == [kind |-> "raise", exc |-> exc, step |-> step, response |-> <<>>]
RunReturns(response) == [kind |-> "return", exc |-> NoExc, step |-> "", response |-> response]

\* the runtime calls run(event); line 122: audio_path = _extract_audio_to_file(event)
RunExtract(ev, io) ==
    /\ pc = "idle"
    /\ served < MaxRequests
    /\ LET r == ExtractAudioToFile(ev, io, created + 1)
       IN  /\ last' = r
           /\ tempFiles' = tempFiles \cup r.made
           /\ created' = created + Cardinality(r.made)
           /\ audio_path' = r.val
           /\ event' = IF r.kind = "return" THEN ev ELSE NoEvent
           /\ pc' = IF r.kind = "return" THEN "extracted" ELSE "done"
           /\ result' = IF r.kind = "return" THEN NoResult ELSE RunRaises(r.exc, "extract")
    /\ served' = served + 1
    /\ UNCHANGED <<cfg, _model, ctor, model, language, beam_size, lm, transcribed, th>>

\* line 123: model = load_model()
RunLoadModel(out) ==
    /\ pc = "extracted"
    \* with a model cached the constructor is not invoked and `out` is not read
    /\ _model # 0 => out = CtorOk
    /\ LET r == LoadModel(_model, cfg, out, ctor.calls + 1)
       IN  /\ lm' = r
           /\ _model' = r.cache
           /\ ctor' = [calls |-> ctor.calls + r.calls, built |-> ctor.built + (IF r.cache # r.before THEN 1 ELSE 0)]
           /\ model' = r.res.val
           /\ pc' = IF r.res.kind = "return" THEN "loaded" ELSE "done"
           /\ result' = IF r.res.kind = "return" THEN NoResult ELSE RunRaises(r.res.exc, "load_model")
           /\ event' = IF r.res.kind = "return" THEN event ELSE NoEvent
    /\ UNCHANGED <<cfg, tempFiles, created, served, audio_path, language, beam_size, last, transcribed, th>>

\* lines 126-128: per-request overrides (condition_on_previous_text, line 129, is
\* read with a plain get and passed on)
RunOptions ==
    /\ pc = "loaded"
    /\ LET o == ParseOptions(event, cfg)
       IN  /\ language' = o.language
           /\ beam_size' = o.beam_size
           /\ pc' = IF o.ok THEN "parsed" ELSE "done"
           /\ result' = IF o.ok THEN NoResult ELSE RunRaises(o.exc, "options")
           /\ event' = IF o.ok THEN event ELSE NoEvent
    /\ UNCHANGED <<cfg, _model, ctor, tempFiles, created, served, audio_path, model, last, lm, transcribed, th>>

\* lines 131-136: model.transcribe(audio_path, ...) is called; `ok` is whether
\* the model accepts the audio
RunTranscribe(ok) ==
    /\ pc = "parsed"
    /\ transcribed' = [called |-> TRUE, audio_path |-> audio_path, beam_size |-> beam_size, language |-> language]
    /\ pc' = IF ok THEN "transcribing" ELSE "done"
    /\ result' = IF ok THEN NoResult ELSE RunRaises(Exc("RuntimeError", <<"decoding failed">>), "transcribe")
    /\ event' = IF ok THEN event ELSE NoEvent
    /\ UNCHANGED <<cfg, _model, ctor, tempFiles, created, served, audio_path, model, language, beam_size, last, lm, th>>

\* lines 138-151: the lazy segments are read into a list and the response is
\* returned; `ok` is whether the model decodes every segment
RunRespond(ok) ==
    /\ pc = "transcribing"
    /\ pc' = "done"
    /\ result' = IF ok THEN RunReturns([keys |-> {"language", "language_probability", "segments"}])
                 ELSE RunRaises(Exc("RuntimeError", <<"decoding failed">>), "transcribe")
    /\ event' = NoEvent
    /\ UNCHANGED <<cfg, _model, ctor, tempFiles, created, served, audio_path, model, language, beam_size, last, lm, transcribed, th>>

\* line 154: the serverless runtime takes what run returned or raised, run's
\* locals are gone, and the worker waits for the next job
NextJob ==
    /\ pc = "done"
    /\ pc' = "idle"
    /\ event' = NoEvent
    /\ audio_path' = 0
    /\ model' = 0
    /\ language' = None
    /\ beam_size' = 0
    /\ last' = NoOutcome
    /\ lm' = NoLoad
    /\ transcribed' = NoCall
    /\ result' = NoResult
    /\ UNCHANGED <<cfg, _model, ctor, tempFiles, created, served, th>>

Next ==
    \/ \E ev \in RunEvents, io \in IoOutcomes : RunExtract(ev, io)
    \/ \E out \in CtorOutcomes : RunLoadModel(out)
    \/ RunOptions
    \/ \E ok \in BOOLEAN : RunTranscribe(ok)
    \/ \E ok \in BOOLEAN : RunRespond(ok)
    \/ NextJob

Spec == Init /\ [][Next]_vars

\* ---------------------------------------------------------------- _extract_audio_to_file alone

InitExtract ==
    /\ Imported
    /\ cfg = [require_cached |-> TRUE, default_language |-> <<>>]
    /\ pc = "call"
    /\ event \in ExtractEvents

\* one call _extract_audio_to_file(event) on a payload of any shape
ExtractCall(io) ==
    /\ pc = "call"
    /\ LET r == ExtractAudioToFile(event, io, created + 1)
       IN  /\ last' = r
           /\ tempFiles' = tempFiles \cup r.made
           /\ created' = created + Cardinality(r.made)
    /\ pc' = "returned"
    /\ UNCHANGED <<cfg, _model, ctor, served, event, audio_path, model, language, beam_size, lm, transcribed, result, th>>

NextExtract == \E io \in IoOutcomes : ExtractCall(io)

SpecExtract == InitExtract /\ [][NextExtract]_vars

\* ---------------------------------------------------------------- load_model, interleaved

\* line 29: if _model is None
LmTest(i) ==
    /\ th[i].pc = "start"
    /\ th' = [th EXCEPT ![i].pc = IF _model = 0 THEN "construct" ELSE "return"]
    /\ UNCHANGED <<cfg, _model, ctor, tempFiles, created, served, pc, event, audio_path, model, language, beam_size, last, lm, transcribed, result>>

\* lines 33-50: the constructor runs; it builds an instance or the except block raises
LmConstruct(i, out) ==
    /\ th[i].pc = "construct"
    /\ ctor' = [calls |-> ctor.calls + 1, built |-> ctor.built + (IF out.ok THEN 1 ELSE 0)]
    /\ th' = IF out.ok THEN [th EXCEPT ![i].pc = "assign", ![i].tmp = ctor.calls + 1]
             ELSE [th EXCEPT ![i].pc = "raised", ![i].exc = HandleCtorFailure(cfg, out.exc)]
    /\ UNCHANGED <<cfg, _model, tempFiles, created, served, pc, event, audio_path, model, language, beam_size, last, lm, transcribed, result>>

\* line 33: the store to the global _model
LmAssign(i) ==
    /\ th[i].pc = "assign"
    /\ _model' = th[i].tmp
    /\ th' = [th EXCEPT ![i].pc = "return"]
    /\ UNCHANGED <<cfg, ctor, tempFiles, created, served, pc, event, audio_path, model, language, beam_size, last, lm, transcribed, result>>

\* line 51: return _model
LmReturn(i) ==
    /\ th[i].pc = "return"
    /\ th' = [th EXCEPT ![i].pc = "done", ![i].ret = _model]
    /\ UNCHANGED <<cfg, _model, ctor, tempFiles, created, served, pc, event, audio_path, model, language, beam_size, last, lm, transcribed, result>>

NextRace ==
    \/ \E i \in Threads : LmTest(i)
    \/ \E i \in Threads, out \in CtorOutcomes : LmConstruct(i, out)
    \/ \E i \in Threads : LmAssign(i)
    \/ \E i \in Threads : LmReturn(i)

SpecRace == Init /\ [][NextRace]_vars

\* ---------------------------------------------------------------- properties

\* C1: once a request's temporary audio file has been created it is deleted on
\* every exit path of run, so whenever run has ended no temporary file exists.
C1_TempFilesDeleted == pc \in {"idle", "done"} => tempFiles = {}

\* C2: an exception raised while resolving the audio source or while
\* transcribing is caught by run and returned as an error response; run never
\* ends by raising it.
C2_ExceptionsBecomeResponses == (pc = "done" /\ result.step \in {"extract", "transcribe"}) => result.kind = "return"

\* C3 as stated: over any sequence of requests, whether earlier constructions
\* succeeded or raised, the constructor is invoked at most once.
C3_CtorInvokedAtMostOnce == ctor.calls <= 1

\* C3 as amended: the constructor builds a model at most once per process, each
\* load_model call invokes it at most once and only while nothing is cached, and
\* a load_model call that finds a cached model returns that identical instance
\* without invoking the constructor.
C3_BuiltOnceThenCached ==
    /\ ctor.built <= 1
    /\ ctor.calls <= served
    /\ lm.calls <= 1
    /\ ctor.built = 1 => _model # 0
    /\ lm.before # 0 => (lm.calls = 0 /\ lm.res.kind = "return" /\ lm.res.val = lm.before /\ _model = lm.before)

\* a second request is served from the cache built by the first
C3_Witness == served = 2 /\ lm.before # 0 /\ lm.res.kind = "return" /\ model = lm.before /\ ctor.calls = 1

\* C4: when load_model invocations interleave during cold start, the model is
\* still built at most once and all invocations return the same instance.
C4_RaceBuildsOnce ==
    /\ ctor.built <= 1
    /\ \A i, j \in Threads : (th[i].pc = "done" /\ th[j].pc = "done") => th[i].ret = th[j].ret

\* the recognized audio sources in their documented priority order
SourceOrder == <<"files.file.content", "input.file", "input.file_url", "input.audio_url", "file", "file_url", "audio_url">>

\* the value a payload holds for a source, None when the payload has no such field
SourceValue(ev, name) ==
    LET files == Get(ev, "files")
        entry == IF IsDict(files) THEN Get(files, "file") ELSE None
        input == Get(ev, "input")
    IN  CASE name = "files.file.content" -> IF IsDict(entry) THEN Get(entry, "content") ELSE None
          [] name = "input.file" -> IF IsDict(input) THEN Get(input, "file") ELSE None
          [] name = "input.file_url" -> IF IsDict(input) THEN Get(input, "file_url") ELSE None
          [] name = "input.audio_url" -> IF IsDict(input) THEN Get(input, "audio_url") ELSE None
          [] OTHER -> Get(ev, name)

NonEmptySources(ev) == {k \in DOMAIN SourceOrder : Truthy(SourceValue(ev, SourceOrder[k]))}

\* C5: when a payload carries several recognized sources, exactly the first
\* non-empty one in the documented order is used, whether or not reading it
\* succeeds.
C5_FirstNonEmptySourceWins ==
    (pc = "returned" /\ NonEmptySources(event) # {}) =>
        \E k \in NonEmptySources(event) :
            /\ \A j \in NonEmptySources(event) : k <= j
            /\ last.source = SourceOrder[k]

\* input.file wins over input.file_url and the direct fields while files holds nothing
C5_Witness ==
    /\ pc = "returned"
    /\ last.source = "input.file"
    /\ {2, 3, 4, 5, 6, 7} \subseteq NonEmptySources(event)

\* the exceptions raised before a temporary file is written
FailuresBeforeWriting == {"binascii.Error", "TypeError", "requests.HTTPError", "requests.Timeout", "ValueError"}

\* C6: a successful _extract_audio_to_file call creates exactly one temporary
\* file and a call that fails before writing creates none.
C6_OneTempFileIffWritten ==
    pc = "returned" =>
        /\ last.kind = "return" => (Cardinality(last.made) = 1 /\ tempFiles = {last.val} /\ created = 1)
        /\ (last.kind = "raise" /\ last.exc.type \in FailuresBeforeWriting) => (last.made = {} /\ tempFiles = {} /\ created = 0)

\* a payload whose base64 cannot be decoded leaves no file behind
C6_Witness == pc = "returned" /\ last.kind = "raise" /\ last.exc.type = "binascii.Error" /\ tempFiles = {}

\* C7: a payload without any non-empty recognized source fails with the
\* 'No audio provided' ValueError, whatever files and input hold.
C7_NoSourceIsInputError ==
    (pc = "returned" /\ NonEmptySources(event) = {}) =>
        (last.kind = "raise" /\ last.exc = NoAudioProvided /\ last.made = {})

\* files and input are both non-mappings
C7_Witness ==
    /\ pc = "returned"
    /\ NonEmptySources(event) = {}
    /\ Get(event, "files") = NonMapping
    /\ Get(event, "input") = NonMapping
    /\ last.exc = NoAudioProvided

\* the language field of the request being transcribed
RequestedLanguage == GetOr(Or(Get(event, "input"), EmptyDict), "language", Absent)

\* C8 as stated: an omitted or empty input.language reaches model.transcribe as
\* None for every process-wide default language.
C8_OmittedOrEmptyIsAutoDetect ==
    (pc = "transcribing" /\ ~Truthy(RequestedLanguage)) => transcribed.language = None

\* C8 as amended: an empty input.language reaches model.transcribe as None, an
\* omitted one as the process-wide default language (None when that default is
\* empty), a non-empty one unchanged.
C8_LanguagePassed ==
    pc = "transcribing" =>
        /\ transcribed.called
        /\ Truthy(RequestedLanguage) => transcribed.language = RequestedLanguage
        /\ (RequestedLanguage # Absent /\ ~Truthy(RequestedLanguage)) => transcribed.language = None
        /\ RequestedLanguage = Absent => transcribed.language = (IF cfg.default_language = <<>> THEN None ELSE Str(cfg.default_language))

\* the language is omitted and the default language is passed
C8_Witness == pc = "transcribing" /\ RequestedLanguage = Absent /\ transcribed.language = Str(<<"it">>)

\* C9: when the backend rejects the requested precision, load_model invokes the
\* constructor a second time with a fallback precision.
C9_PrecisionRetriedOnce == lm.ctorExc.precision => lm.calls = 2

\* whether the message of exception e mentions word w, as load_model tests it
Mentions(e, w) == Contains(Lower(e.msg), w)
MentionsDevice(e) == Mentions(e, "cuda") \/ Mentions(e, "gpu") \/ Mentions(e, "device")

\* C10 as stated: every construction failure other than a rejected precision
\* leaves load_model as the same exception and leaves the cache unset.
C10_FailurePropagatesUnchanged ==
    (lm.ctorExc # NoExc /\ ~lm.ctorExc.precision) => (lm.res.kind = "raise" /\ lm.res.exc = lm.ctorExc /\ _model = 0)

\* C10 as amended: such a failure leaves load_model as the same exception when
\* its message mentions cuda, gpu or device, when caching is not required or when
\* its message does not mention local; otherwise it is replaced by the 'Model
\* must be cached' RuntimeError raised from it. The cache is left unset.
C10_OnlyCacheMissesAreReplaced ==
    (lm.ctorExc # NoExc /\ ~lm.ctorExc.precision) =>
        /\ lm.res.kind = "raise"
        /\ _model = 0
        /\ lm.cache = 0
        /\ lm.res.exc = IF cfg.require_cached /\ Mentions(lm.ctorExc, "local") /\ ~MentionsDevice(lm.ctorExc)
                        THEN ExcFrom("RuntimeError", MustBeCached, lm.ctorExc)
                        ELSE lm.ctorExc

\* a CUDA failure that also mentions local propagates as itself
C10_Witness ==
    /\ lm.ctorExc # NoExc
    /\ ~lm.ctorExc.precision
    /\ cfg.require_cached
    /\ Mentions(lm.ctorExc, "cuda")
    /\ Mentions(lm.ctorExc, "local")
    /\ result.kind = "raise"
    /\ result.exc = lm.ctorExc
====
